---------------------------- MODULE Spec2Model ----------------------------
(***************************************************************************)
(* A model of WindPlant (hopp/simulation/technologies/wind/wind_plant.py): *)
(* the configuration layer that reconciles turbine rating, rotor diameter, *)
(* hub height, layout coordinates and the wake model with the parameters   *)
(* of the simulation engine it wraps.                                      *)
(*                                                                         *)
(* The engine is a key/value store (engine), the site and its wind         *)
(* resource are records (site), the layout object is a record (layout).    *)
(* Every method of WindPlant is an operator from a machine state           *)
(*     [engine, site, layout, calls, exc]                                  *)
(* to a machine state; exc is the exception the method ended with, calls   *)
(* the collaborator calls it made, in order.  An action applies one        *)
(* method to the current state and records it in last.                     *)
(*                                                                         *)
(* Quantities in kW are exact rationals <<numerator, denominator>> in      *)
(* lowest terms, with non-negative numerator: ratings and power-curve      *)
(* values are non-negative powers.                                         *)
(***************************************************************************)
EXTENDS Integers, Sequences, FiniteSets, TLC

VARIABLES config, engine, site, layout, calls, last, phase

vars == <<config, engine, site, layout, calls, last, phase>>

-----------------------------------------------------------------------------
(* Bounds of the model *)

\* largest number of turbine coordinates given to modify_coordinates / num_turbines
MaxTurbines == 2

\* largest turbine rating (kW, in model units) given to the turb_rating setter
MaxRatingKw == 2

-----------------------------------------------------------------------------
(* Exact rational arithmetic *)

RECURSIVE GCD(_, _)
GCD(a, b) == IF b = 0 THEN a ELSE GCD(b, a % b)

Rat(n, d) == IF n = 0 THEN <<0, 1>> ELSE <<n \div GCD(n, d), d \div GCD(n, d)>>

RInt(k) == <<k, 1>>

RMul(a, b) == Rat(a[1] * b[1], a[2] * b[2])

RDiv(a, b) == Rat(a[1] * b[2], a[2] * b[1])

RLe(a, b) == a[1] * b[2] <= b[1] * a[2]

Range(s) == {s[i] : i \in DOMAIN s}

\* Python's max() of a non-empty list of numbers
RMax(s) == CHOOSE x \in Range(s) : \A y \in Range(s) : RLe(y, x)

\* round half to even of n/d (n >= 0, d > 0): numpy.round and Python's round
RoundHalfEven(n, d) ==
    LET q == n \div d
        r == n % d
    IN  IF 2 * r < d THEN q
        ELSE IF 2 * r > d THEN q + 1
        ELSE IF q % 2 = 0 THEN q ELSE q + 1

\* np.round(x, decimals = 3)
Round3(a) == Rat(RoundHalfEven(a[1] * 1000, a[2]), 1000)

-----------------------------------------------------------------------------
(* Machine states and exceptions *)

\* Optional values: None, or Some(v) holding v
None == <<>>

Some(v) == <<v>>

Val(o) == o[1]

NoExc == [type |-> "none", msg |-> <<>>]

Exc(t, msg) == [type |-> t, msg |-> msg]

Ok(m) == m.exc.type = "none"

Raise(m, t, msg) == [m EXCEPT !.exc = Exc(t, msg)]

\* a call to a collaborator outside WindPlant, recorded in order
Call(m, name, arg) == [m EXCEPT !.calls = Append(@, <<name, arg>>)]

\* self._system_model.value(key, v)
SetValue(m, key, v) == [m EXCEPT !.engine[key] = v]

Machine == [engine |-> engine, site |-> site, layout |-> layout,
            calls |-> <<>>, exc |-> NoExc]


-----------------------------------------------------------------------------
(* Collaborators of WindPlant *)

\* WindLayout.set_num_turbines(n): with a custom layout the user-provided
\* positions are used, otherwise n positions are laid out; the engine's
\* capacity follows the laid-out turbines
set_num_turbines(m, n) ==
    LET xs == IF m.layout.layout_mode = "custom" THEN m.layout.layout_x
              ELSE [i \in 1..n |-> i - 1]
        ys == IF m.layout.layout_mode = "custom" THEN m.layout.layout_y
              ELSE [i \in 1..n |-> 0]
        m1 == Call(m, "set_num_turbines", n)
        m2 == SetValue(SetValue(m1, "wind_farm_xCoordinates", xs),
                       "wind_farm_yCoordinates", ys)
    IN  SetValue(m2, "system_capacity",
                 RMul(RMax(m2.engine.wind_turbine_powercurve_powerout), RInt(Len(xs))))

\* Floris.wind_farm_layout(xcoords, ycoords)
wind_farm_layout(m, xcoords, ycoords) ==
    SetValue(SetValue(Call(m, "wind_farm_layout", <<xcoords, ycoords>>),
                      "wind_farm_xCoordinates", xcoords),
             "wind_farm_yCoordinates", ycoords)

\* the turbine-models library: name -> PySAM turbine specs
TurbineLibrary ==
    [T \in {"TurbA"} |->
        [wind_turbine_rotor_diameter |-> 120,
         wind_turbine_hub_ht |-> 120,
         wind_turbine_powercurve_windspeeds |-> <<0, 10, 20>>,
         wind_turbine_powercurve_powerout |-> <<RInt(0), Rat(1, 3), Rat(4, 3)>>]]

\* check_turbine_library_for_turbine(name, turbine_group)
check_turbine_library_for_turbine(name) == name \in DOMAIN TurbineLibrary

\* self._system_model.Turbine.assign(turbine_dict)
TurbineAssign(m, td) ==
    LET m1 == Call(m, "Turbine.assign", td.wind_turbine_rotor_diameter)
    IN  [m1 EXCEPT
            !.engine.wind_turbine_rotor_diameter = td.wind_turbine_rotor_diameter,
            !.engine.wind_turbine_hub_ht = td.wind_turbine_hub_ht,
            !.engine.wind_turbine_powercurve_windspeeds =
                td.wind_turbine_powercurve_windspeeds,
            !.engine.wind_turbine_powercurve_powerout =
                td.wind_turbine_powercurve_powerout]

\* SiteInfo.initialize_wind_resource(data): a resource fetched anew for the
\* given place and year at the site's hub height
initialize_wind_resource(m, data) ==
    [id |-> m.site.wind_resource.id + 1,
     latitude |-> data.lat,
     longitude |-> data.lon,
     year |-> data.year,
     hub_height_meters |-> m.site.hub_height,
     data |-> [fetch |-> m.site.wind_resource.id + 1,
               heights |-> {m.site.hub_height}]]

\* WindLayout.set_layout_params(wind_kw, params = layout_params): the layout
\* object is handed the capacity and the parameters; what it lays out from
\* them stays inside the layout object
set_layout_params(m, wind_kw, params) ==
    Call(m, "set_layout_params", <<wind_kw, params>>)

\* the parameter class modify_layout_params builds for a layout mode
ParametersClass(layout_mode) ==
    CASE layout_mode = "custom" -> "WindCustomParameters"
      [] layout_mode = "grid" -> "WindGridParameters"
      [] layout_mode = "basicgrid" -> "WindBasicGridParameters"
      [] layout_mode = "boundarygrid" -> "WindBoundaryGridParameters"

\* calculate_air_density_losses(elev)
calculate_air_density_losses(elev) == <<"air_density_losses", elev>>

\* Turbine.calculate_powercurve(rating_kw, rotor_diameter, ...): the engine
\* replaces its power curve by one that tops out at rating_kw
calculate_powercurve(m, rating_kw) ==
    LET m1 == Call(m, "calculate_powercurve",
                   <<rating_kw, m.engine.wind_turbine_rotor_diameter>>)
    IN  SetValue(m1, "wind_turbine_powercurve_powerout",
                 <<RInt(0), RMul(rating_kw, Rat(1, 2)), rating_kw>>)

-----------------------------------------------------------------------------
(* WindPlant methods *)

\* WindConfig.__attrs_post_init__ with turbine parameters required of every model
WindConfigPostInit_AnyModel(m, cfg) ==
    IF cfg.model_name = "floris" /\ cfg.timestep = None
    THEN Raise(m, "ValueError", <<"Timestep (Tuple[int, int]) required for floris">>)
    ELSE IF /\ cfg.turbine_rating_kw = None /\ cfg.turbine_name = None
            /\ cfg.model_input_file = None
    THEN Raise(m, "ValueError",
               <<"Parameters of turbine_rating_kw or turbine_name are required">>)
    ELSE m

\* WindConfig.__attrs_post_init__
WindConfigPostInit(m, cfg) ==
    IF cfg.model_name = "floris" /\ cfg.timestep = None
    THEN Raise(m, "ValueError", <<"Timestep (Tuple[int, int]) required for floris">>)
    ELSE IF /\ cfg.turbine_rating_kw = None /\ cfg.turbine_name = None
            /\ cfg.model_name = "pysam" /\ cfg.model_input_file = None
    THEN Raise(m, "ValueError",
               <<"Parameters of turbine_rating_kw or turbine_name are required">>)
    ELSE m

\* num_turbines (property)
NumTurbines(m) == Len(m.engine.wind_farm_xCoordinates)

\* turb_rating (property)
TurbRating(m) == RMax(m.engine.wind_turbine_powercurve_powerout)

\* num_turbines (setter) that compares with the custom layout only
NumTurbinesSet_LayoutOnly(m, n_turbines) ==
    IF ~Ok(m) THEN m
    ELSE IF m.layout.layout_mode = "custom"
    THEN IF n_turbines = Len(m.layout.layout_x)
         THEN set_num_turbines(set_num_turbines(m, n_turbines), n_turbines)
         ELSE Raise(m, "ValueError", <<"num_turbines does not equal length of layout">>)
    ELSE set_num_turbines(m, n_turbines)

\* num_turbines (setter)
NumTurbinesSet(m, n_turbines) ==
    IF ~Ok(m) THEN m
    ELSE IF m.layout.layout_mode = "custom"
    THEN IF n_turbines = Len(m.layout.layout_x)
         THEN set_num_turbines(set_num_turbines(m, n_turbines), n_turbines)
         ELSE IF n_turbines # Len(m.engine.wind_farm_xCoordinates)
              THEN Raise(m, "ValueError", <<"num_turbines does not equal length of layout">>)
              ELSE set_num_turbines(m, n_turbines)
    ELSE set_num_turbines(m, n_turbines)

\* rotor_diameter (setter)
RotorDiameterSet(m, d) ==
    IF ~Ok(m) THEN m
    ELSE LET m1 == SetValue(m, "wind_turbine_rotor_diameter", d)
         IN  NumTurbinesSet(m1, NumTurbines(m1))

\* turb_rating (setter) with the capacity taken from the rating before the write
TurbRatingSet_StaleCapacity(m, rating_kw) ==
    IF ~Ok(m) THEN m
    ELSE IF TurbRating(m)[1] = 0
    THEN Raise(m, "ZeroDivisionError", <<"division by zero">>)
    ELSE LET scaling == RDiv(rating_kw, TurbRating(m))
             powerout == m.engine.wind_turbine_powercurve_powerout
             m1 == SetValue(m, "wind_turbine_powercurve_powerout",
                            [i \in DOMAIN powerout |-> RMul(powerout[i], scaling)])
         IN  SetValue(m1, "system_capacity",
                      RMul(TurbRating(m), RInt(Len(m1.engine.wind_farm_xCoordinates))))

\* turb_rating (setter) that truncates the scaled curve to whole kW
TurbRatingSet_Truncated(m, rating_kw) ==
    IF ~Ok(m) THEN m
    ELSE IF TurbRating(m)[1] = 0
    THEN Raise(m, "ZeroDivisionError", <<"division by zero">>)
    ELSE LET scaling == RDiv(rating_kw, TurbRating(m))
             powerout == m.engine.wind_turbine_powercurve_powerout
             m1 == SetValue(m, "wind_turbine_powercurve_powerout",
                            [i \in DOMAIN powerout |->
                                RInt(RMul(powerout[i], scaling)[1]
                                        \div RMul(powerout[i], scaling)[2])])
         IN  SetValue(m1, "system_capacity",
                      RMul(TurbRating(m1), RInt(Len(m1.engine.wind_farm_xCoordinates))))

\* turb_rating (setter)
TurbRatingSet(m, rating_kw) ==
    IF ~Ok(m) THEN m
    ELSE IF TurbRating(m)[1] = 0
    THEN Raise(m, "ZeroDivisionError", <<"division by zero">>)
    ELSE LET scaling == RDiv(rating_kw, TurbRating(m))
             powerout == m.engine.wind_turbine_powercurve_powerout
             m1 == SetValue(m, "wind_turbine_powercurve_powerout",
                            [i \in DOMAIN powerout |-> RMul(powerout[i], scaling)])
         IN  SetValue(m1, "system_capacity",
                      RMul(TurbRating(m1), RInt(Len(m1.engine.wind_farm_xCoordinates))))

\* modify_coordinates with the length check after the first write
ModifyCoordinates_CheckLate(m, model_name, xcoords, ycoords) ==
    IF ~Ok(m) THEN m
    ELSE LET m1 == SetValue(m, "wind_farm_xCoordinates", xcoords)
         IN  IF Len(xcoords) # Len(ycoords)
             THEN Raise(m1, "ValueError", <<"coordinate arrays must have same length">>)
             ELSE SetValue(SetValue(m1, "wind_farm_yCoordinates", ycoords),
                           "system_capacity", RMul(TurbRating(m1), RInt(Len(xcoords))))

\* modify_coordinates with the capacity taken from the turbine count before the write
ModifyCoordinates_StaleCount(m, model_name, xcoords, ycoords) ==
    IF ~Ok(m) THEN m
    ELSE IF Len(xcoords) # Len(ycoords)
    THEN Raise(m, "ValueError", <<"coordinate arrays must have same length">>)
    ELSE IF model_name = "floris"
    THEN wind_farm_layout(m, xcoords, ycoords)
    ELSE LET m1 == SetValue(m, "wind_farm_xCoordinates", xcoords)
             m2 == SetValue(m1, "wind_farm_yCoordinates", ycoords)
         IN  SetValue(m2, "system_capacity",
                      RMul(TurbRating(m2), RInt(NumTurbines(m))))

\* modify_coordinates
ModifyCoordinates(m, model_name, xcoords, ycoords) ==
    IF ~Ok(m) THEN m
    ELSE IF Len(xcoords) # Len(ycoords)
    THEN Raise(m, "ValueError", <<"coordinate arrays must have same length">>)
    ELSE IF model_name = "floris"
    THEN wind_farm_layout(m, xcoords, ycoords)
    ELSE LET m1 == SetValue(m, "wind_farm_xCoordinates", xcoords)
             m2 == SetValue(m1, "wind_farm_yCoordinates", ycoords)
         IN  SetValue(m2, "system_capacity",
                      RMul(TurbRating(m2), RInt(Len(xcoords))))

\* wake_model (setter); engine_ok: whether the engine accepts the value
WakeModelSet(m, model_type, engine_ok) ==
    IF ~Ok(m) THEN m
    ELSE IF 0 <= model_type /\ model_type < 4
    THEN IF engine_ok
         THEN SetValue(m, "wind_farm_wake_model", model_type)
         ELSE Raise(m, "NotImplementedError", <<>>)
    ELSE m

\* modify_powercurve with the rotor diameter written before the engine call
ModifyPowercurve_WriteFirst(m, rotor_diam, rating_kw, engine_ok) ==
    IF ~Ok(m) THEN m
    ELSE LET m0 == SetValue(m, "wind_turbine_rotor_diameter", rotor_diam)
         IN  IF ~engine_ok
             THEN Raise(Call(m0, "calculate_powercurve",
                             <<rating_kw, m0.engine.wind_turbine_rotor_diameter>>),
                        "RuntimeError",
                        <<"could not calculate turbine powercurve", rotor_diam, rating_kw>>)
             ELSE SetValue(calculate_powercurve(m0, rating_kw), "system_capacity",
                           RMul(rating_kw, RInt(NumTurbines(m0))))

\* modify_powercurve; engine_ok: whether calculate_powercurve succeeds
ModifyPowercurve(m, rotor_diam, rating_kw, engine_ok) ==
    IF ~Ok(m) THEN m
    ELSE IF ~engine_ok
    THEN Raise(Call(m, "calculate_powercurve",
                    <<rating_kw, m.engine.wind_turbine_rotor_diameter>>),
               "RuntimeError",
               <<"could not calculate turbine powercurve", rotor_diam, rating_kw>>)
    ELSE LET m1 == calculate_powercurve(m, rating_kw)
             m2 == SetValue(m1, "wind_turbine_rotor_diameter", rotor_diam)
         IN  SetValue(m2, "system_capacity", RMul(rating_kw, RInt(NumTurbines(m2))))

\* lines 230-254 with the rotor diameters compared only when no turbine is named
InitializeTurbineByName_NoRotorCheck(m, cfg) ==
    IF ~Ok(m) \/ cfg.turbine_name = None THEN m
    ELSE LET m1 == Call(m, "check_turbine_library_for_turbine", cfg.turbine_name)
         IN  IF ~check_turbine_library_for_turbine(Val(cfg.turbine_name))
             THEN Raise(Call(m1, "print_turbine_name_list", None),
                        "UnboundLocalError", <<"turbine_name">>)
             ELSE LET turbine_name == Val(cfg.turbine_name)
                      turbine_dict == TurbineLibrary[turbine_name]
                      m2 == Call(m1, "get_pysam_turbine_specs", turbine_name)
                      m3 == TurbineAssign(m2, turbine_dict)
                      m4 == RotorDiameterSet(m3, turbine_dict.wind_turbine_rotor_diameter)
                  IN  TurbRatingSet(m4,
                          Round3(RMax(turbine_dict.wind_turbine_powercurve_powerout)))

\* initialize_pysam_wind_turbine, lines 230-254: the turbine named in the config
InitializeTurbineByName(m, cfg) ==
    IF ~Ok(m) \/ cfg.turbine_name = None THEN m
    ELSE LET m1 == Call(m, "check_turbine_library_for_turbine", cfg.turbine_name)
         IN  IF ~check_turbine_library_for_turbine(Val(cfg.turbine_name))
             THEN \* ValueError(msg) is built and dropped; turbine_name is unbound
                  Raise(Call(m1, "print_turbine_name_list", None),
                        "UnboundLocalError", <<"turbine_name">>)
             ELSE LET turbine_name == Val(cfg.turbine_name)
                      turbine_dict == TurbineLibrary[turbine_name]
                      m2 == Call(m1, "get_pysam_turbine_specs", turbine_name)
                      m3 == TurbineAssign(m2, turbine_dict)
                      m4 == RotorDiameterSet(m3, turbine_dict.wind_turbine_rotor_diameter)
                      m5 == TurbRatingSet(m4,
                              Round3(RMax(turbine_dict.wind_turbine_powercurve_powerout)))
                  IN  IF /\ Ok(m5)
                         /\ cfg.rotor_diameter # None
                         /\ Val(cfg.rotor_diameter) # m5.engine.wind_turbine_rotor_diameter
                      THEN Raise(m5, "ValueError", <<"Input rotor diameter does not match">>)
                      ELSE m5

\* initialize_pysam_wind_turbine, lines 256-265: the configured hub height
CheckHubHeight(m, cfg) ==
    IF ~Ok(m) THEN m
    ELSE IF cfg.hub_height # None /\ Val(cfg.hub_height) # m.engine.wind_turbine_hub_ht
    THEN Raise(m, "ValueError", <<"Input hub-height does not match">>)
    ELSE m

\* Python's min() and max() of a non-empty collection of integers
Min(S) == CHOOSE x \in S : \A y \in S : x <= y

Max(S) == CHOOSE x \in S : \A y \in S : x >= y

\* lines 267-283 without the engine's wind_resource_data being reassigned
AlignResourceHeight_KeepData(m) ==
    IF ~Ok(m) THEN m
    ELSE LET hub_height == m.engine.wind_turbine_hub_ht
             heights == m.site.wind_resource.data.heights
         IN  IF hub_height = m.site.wind_resource.hub_height_meters THEN m
             ELSE IF hub_height >= Min(heights) /\ hub_height <= Max(heights)
             THEN [m EXCEPT !.site.wind_resource.hub_height_meters = hub_height,
                            !.site.hub_height = hub_height]
             ELSE LET m1 == [m EXCEPT !.site.hub_height = hub_height]
                      data == [lat |-> m1.site.wind_resource.latitude,
                               lon |-> m1.site.wind_resource.longitude,
                               year |-> m1.site.wind_resource.year]
                      m2 == Call(m1, "initialize_wind_resource", data)
                  IN  [m2 EXCEPT !.site.wind_resource = initialize_wind_resource(m1, data)]

\* lines 267-283 with the ends of the height range counted as outside
AlignResourceHeight_OpenRange(m) ==
    IF ~Ok(m) THEN m
    ELSE LET hub_height == m.engine.wind_turbine_hub_ht
             heights == m.site.wind_resource.data.heights
         IN  IF hub_height = m.site.wind_resource.hub_height_meters THEN m
             ELSE IF hub_height > Min(heights) /\ hub_height < Max(heights)
             THEN [m EXCEPT !.site.wind_resource.hub_height_meters = hub_height,
                            !.site.hub_height = hub_height]
             ELSE LET m1 == [m EXCEPT !.site.hub_height = hub_height]
                      data == [lat |-> m1.site.wind_resource.latitude,
                               lon |-> m1.site.wind_resource.longitude,
                               year |-> m1.site.wind_resource.year]
                      wind_resource == initialize_wind_resource(m1, data)
                      m2 == Call(m1, "initialize_wind_resource", data)
                      m3 == [m2 EXCEPT !.site.wind_resource = wind_resource]
                  IN  SetValue(m3, "wind_resource_data", m3.site.wind_resource.data)

\* initialize_pysam_wind_turbine, lines 267-283: the resource's hub height
AlignResourceHeight(m) ==
    IF ~Ok(m) THEN m
    ELSE LET hub_height == m.engine.wind_turbine_hub_ht
             heights == m.site.wind_resource.data.heights
         IN  IF hub_height = m.site.wind_resource.hub_height_meters THEN m
             ELSE IF hub_height >= Min(heights) /\ hub_height <= Max(heights)
             THEN [m EXCEPT !.site.wind_resource.hub_height_meters = hub_height,
                            !.site.hub_height = hub_height]
             ELSE LET m1 == [m EXCEPT !.site.hub_height = hub_height]
                      data == [lat |-> m1.site.wind_resource.latitude,
                               lon |-> m1.site.wind_resource.longitude,
                               year |-> m1.site.wind_resource.year]
                      wind_resource == initialize_wind_resource(m1, data)
                      m2 == Call(m1, "initialize_wind_resource", data)
                      m3 == [m2 EXCEPT !.site.wind_resource = wind_resource]
                  IN  SetValue(m3, "wind_resource_data", m3.site.wind_resource.data)

\* initialize_pysam_wind_turbine, lines 285-287: air-density losses
AdjustAirDensity(m, cfg) ==
    IF ~Ok(m) THEN m
    ELSE IF cfg.adjust_air_density_for_elevation /\ m.site.elev # None
    THEN SetValue(Call(m, "Losses.assign", m.site.elev),
                  "turb_specific_loss",
                  Some(calculate_air_density_losses(Val(m.site.elev))))
    ELSE m

\* initialize_pysam_wind_turbine
InitializePysamWindTurbine(m, cfg) ==
    LET m1 == IF cfg.rotor_diameter # None
              THEN RotorDiameterSet(m, Val(cfg.rotor_diameter))
              ELSE m
        m2 == InitializeTurbineByName(m1, cfg)
        m3 == CheckHubHeight(m2, cfg)
        m4 == AlignResourceHeight(m3)
    IN  AdjustAirDensity(m4, cfg)

\* __attrs_post_init__, lines 210-212: the configured rating and turbine count
ApplyRatingAndCount(m, cfg) ==
    LET m1 == IF cfg.turbine_rating_kw # None
              THEN TurbRatingSet(m, Val(cfg.turbine_rating_kw))
              ELSE m
    IN  NumTurbinesSet(m1, cfg.num_turbines)

\* system_capacity_by_rating with the ends of the rating range excluded
SystemCapacityByRating_OpenRange(m, rating_range_kw, wind_size_kw) ==
    IF ~Ok(m) THEN m
    ELSE IF NumTurbines(m) = 0
    THEN Raise(m, "ZeroDivisionError", <<"division by zero">>)
    ELSE LET turb_rating_kw == RDiv(wind_size_kw, RInt(NumTurbines(m)))
         IN  IF /\ ~RLe(turb_rating_kw, RInt(rating_range_kw[1]))
                /\ ~RLe(RInt(rating_range_kw[2]), turb_rating_kw)
             THEN TurbRatingSet(m, turb_rating_kw)
             ELSE Raise(m, "RuntimeError",
                        <<"WindPlant could not meet target system_capacity">>)

\* system_capacity_by_rating; rating_range_kw is self._rating_range_kw
SystemCapacityByRating(m, rating_range_kw, wind_size_kw) ==
    IF ~Ok(m) THEN m
    ELSE IF NumTurbines(m) = 0
    THEN Raise(m, "ZeroDivisionError", <<"division by zero">>)
    ELSE LET turb_rating_kw == RDiv(wind_size_kw, RInt(NumTurbines(m)))
         IN  IF /\ RLe(RInt(rating_range_kw[1]), turb_rating_kw)
                /\ RLe(turb_rating_kw, RInt(rating_range_kw[2]))
             THEN TurbRatingSet(m, turb_rating_kw)
             ELSE Raise(m, "RuntimeError",
                        <<"WindPlant could not meet target system_capacity">>)

\* system_capacity_by_num_turbines that rounds halves up
SystemCapacityByNumTurbines_HalfUp(m, wind_size_kw) ==
    IF ~Ok(m) THEN m
    ELSE IF TurbRating(m)[1] = 0
    THEN Raise(m, "ZeroDivisionError", <<"division by zero">>)
    ELSE LET quotient == RDiv(wind_size_kw, TurbRating(m))
             new_num_turbines == (2 * quotient[1] + quotient[2]) \div (2 * quotient[2])
         IN  IF NumTurbines(m) # new_num_turbines
             THEN NumTurbinesSet(m, new_num_turbines)
             ELSE m

\* system_capacity_by_num_turbines
SystemCapacityByNumTurbines(m, wind_size_kw) ==
    IF ~Ok(m) THEN m
    ELSE IF TurbRating(m)[1] = 0
    THEN Raise(m, "ZeroDivisionError", <<"division by zero">>)
    ELSE LET quotient == RDiv(wind_size_kw, TurbRating(m))
             new_num_turbines == RoundHalfEven(quotient[1], quotient[2])
         IN  IF NumTurbines(m) # new_num_turbines
             THEN NumTurbinesSet(m, new_num_turbines)
             ELSE m

\* system_capacity_kw (setter)
SystemCapacityKwSet(m, size_kw) == SystemCapacityByNumTurbines(m, size_kw)

\* modify_layout_params that hands a dictionary on when no layout_mode is given
ModifyLayoutParams_NoModeCheck(m, wind_capacity_kW, layout_params, layout_mode, ctor_ok) ==
    IF ~Ok(m) THEN m
    ELSE IF layout_params.type = "dict" /\ layout_mode # None
            /\ Val(layout_mode) \in {"custom", "grid", "basicgrid", "boundarygrid"}
    THEN LET class == ParametersClass(Val(layout_mode))
             m1 == Call(m, class, layout_params.items)
         IN  IF ~ctor_ok
             THEN Raise(m1, "TypeError", <<class>>)
             ELSE set_layout_params(m1, wind_capacity_kW,
                                    [type |-> class, items |-> layout_params.items])
    ELSE set_layout_params(m, wind_capacity_kW, layout_params)

\* modify_layout_params; ctor_ok: whether the parameter class accepts the
\* dictionary's keys
ModifyLayoutParams(m, wind_capacity_kW, layout_params, layout_mode, ctor_ok) ==
    IF ~Ok(m) THEN m
    ELSE IF layout_params.type = "dict" /\ layout_mode # None
            /\ Val(layout_mode) \in {"custom", "grid", "basicgrid", "boundarygrid"}
    THEN LET class == ParametersClass(Val(layout_mode))
             m1 == Call(m, class, layout_params.items)
         IN  IF ~ctor_ok
             THEN Raise(m1, "TypeError", <<class>>)
             ELSE set_layout_params(m1, wind_capacity_kW,
                                    [type |-> class, items |-> layout_params.items])
    ELSE IF layout_params.type = "dict" /\ layout_mode = None
    THEN Raise(m, "ValueError",
               <<"If providing layout_params as a dictionary, please specify layout_mode.">>)
    ELSE set_layout_params(m, wind_capacity_kW, layout_params)

-----------------------------------------------------------------------------
(* Inputs *)

\* turbine ratings handed to the setters (kW)
Ratings == {RInt(k) : k \in 0..MaxRatingKw}

\* k turbines in a row, the first at position x0
Row(k, x0) == [i \in 1..k |-> x0 + i - 1]

\* x-coordinate arrays: rows of up to MaxTurbines turbines from position 0,
\* and one turbine at position 1
XCoords == {Row(k, 0) : k \in 0..MaxTurbines} \cup {Row(1, 1)}

\* y-coordinate arrays: up to MaxTurbines positions on one row
YCoords == {[i \in 1..k |-> 0] : k \in 0..MaxTurbines}

RotorDiameters == {100, 120}

HubHeights == {80, 120}

\* wake-model indices: the ends of the valid range 0..3 and their neighbours outside
WakeModels == {-1, 0, 3, 4}

\* power curves of the engine's defaults or input file
PowerCurves == {<<RInt(0), RInt(1), RInt(3)>>}

\* rating_range_kw of the config: the allowable turbine ratings (kW), both
\* ends among the ratings the model hands out
RatingRangeKw == <<1, 2>>

\* target capacities handed to system_capacity_by_rating (kW): from nothing
\* to above the largest rating
WindSizes == {RInt(k) : k \in 0..MaxRatingKw + 1}

\* target capacities assigned to system_capacity_kw (kW): from nothing to
\* MaxTurbines turbines of 1 kW
CapacityTargets == {RInt(k) : k \in 0..MaxTurbines}

\* layout_params of modify_layout_params: a dictionary, and a parameter object
LayoutParams ==
    {[type |-> "dict", items |-> <<"layout_x", "layout_y">>],
     [type |-> "WindCustomParameters", items |-> <<"layout_x", "layout_y">>]}

\* layout_mode of modify_layout_params: omitted, the four modes that have a
\* parameter class, and a mode that has none
LayoutModes ==
    {None, Some("custom"), Some("grid"), Some("basicgrid"), Some("boundarygrid"),
     Some("floris_layout")}

\* a PySAM plant on a grid layout, its turbine taken from an input file
BaseConfig ==
    [model_name |-> "pysam",
     num_turbines |-> 1,
     turbine_rating_kw |-> None,
     rotor_diameter |-> None,
     hub_height |-> None,
     turbine_name |-> None,
     layout_mode |-> "grid",
     rating_range_kw |-> RatingRangeKw,
     timestep |-> Some(<<0, 8760>>),
     model_input_file |-> Some("input.yaml"),
     adjust_air_density_for_elevation |-> FALSE]

\* configs that differ in the turbine they name and its dimensions
TurbineConfigs ==
    {[BaseConfig EXCEPT !.turbine_name = t, !.rotor_diameter = d, !.hub_height = h] :
        t \in {None, Some("TurbA"), Some("NoSuchTurbine")},
        d \in {None} \cup {Some(x) : x \in RotorDiameters},
        h \in {None} \cup {Some(x) : x \in HubHeights}}

\* configs that differ in the model, the size of the farm and its layout
SizingConfigs ==
    {[BaseConfig EXCEPT !.model_name = mn, !.num_turbines = n, !.turbine_rating_kw = r,
                        !.layout_mode = lm] :
        mn \in {"pysam", "floris"}, n \in 1..MaxTurbines,
        r \in {None, Some(RInt(1))}, lm \in {"custom", "grid"}}

\* configs that differ in the air-density adjustment
AirDensityConfigs ==
    {[BaseConfig EXCEPT !.adjust_air_density_for_elevation = a] : a \in BOOLEAN}

\* configs that differ in the fields WindConfig.__attrs_post_init__ reads
ConstructionConfigs ==
    {[BaseConfig EXCEPT !.model_name = mn, !.timestep = ts, !.turbine_rating_kw = r,
                        !.turbine_name = t, !.model_input_file = f] :
        mn \in {"pysam", "floris"}, ts \in {None, Some(<<0, 8760>>)},
        r \in {None, Some(RInt(1))}, t \in {None, Some("TurbA")},
        f \in {None, Some("input.yaml")}}

\* configs that differ in the model and the layout mode
LayoutConfigs ==
    {[BaseConfig EXCEPT !.model_name = mn, !.layout_mode = lm] :
        mn \in {"pysam", "floris"}, lm \in {"custom", "grid"}}

Configs == TurbineConfigs \cup SizingConfigs \cup AirDensityConfigs

\* the engine's hub height and the measurement heights of the resource data:
\* equal to the resource's 80 m, outside the data, inside the data
HubScenarios == {<<80, {80}>>, <<120, {80}>>, <<120, {80, 120}>>}

-----------------------------------------------------------------------------
(* The state machine *)

\* the arguments of WindConfig, drawn from cfgs, and the engine, site and
\* layout that lines 146-208 put in place for them
InitFor(cfgs) ==
    /\ config \in cfgs
    /\ \E xs \in {Row(k, 0) : k \in 1..MaxTurbines}, pc \in PowerCurves,
          hub \in HubScenarios,
          elev \in {None, Some(1000)} :
          /\ (config \notin TurbineConfigs \/ config.rotor_diameter # None)
                => hub = <<80, {80}>>
          /\ config \notin AirDensityConfigs => elev = Some(1000)
          /\ config.layout_mode # "custom" => xs = Row(1, 0)
          /\ layout = [layout_mode |-> config.layout_mode,
                       layout_x |-> xs,
                       layout_y |-> [i \in DOMAIN xs |-> 0]]
          /\ engine = [wind_turbine_powercurve_powerout |-> pc,
                       wind_turbine_powercurve_windspeeds |-> [i \in DOMAIN pc |-> 10 * i],
                       wind_farm_xCoordinates |-> xs,
                       wind_farm_yCoordinates |-> [i \in DOMAIN xs |-> 0],
                       system_capacity |-> RMul(RMax(pc), RInt(Len(xs))),
                       wind_farm_wake_model |-> 0,
                       wind_turbine_rotor_diameter |-> 100,
                       wind_turbine_hub_ht |-> hub[1],
                       wind_resource_data |-> [fetch |-> 0, heights |-> hub[2]],
                       turb_specific_loss |-> None]
          /\ site = [hub_height |-> 80,
                     elev |-> elev,
                     wind_resource |-> [id |-> 0, latitude |-> 35, longitude |-> -101,
                                        year |-> 2012, hub_height_meters |-> 80,
                                        data |-> [fetch |-> 0, heights |-> hub[2]]]]
    /\ calls = <<>>
    /\ last = [op |-> "none", exc |-> NoExc]
    /\ phase = "config"

Init == InitFor(Configs)

\* the state after a method ran: its writes, its calls and how it ended
Apply(m, op) ==
    /\ engine' = m.engine
    /\ site' = m.site
    /\ layout' = m.layout
    /\ calls' = m.calls
    /\ last' = [op |-> op, exc |-> m.exc]

\* WindConfig(...): the config is accepted or construction fails
ConfigPostInit ==
    /\ phase = "config"
    /\ LET m == WindConfigPostInit(Machine, config)
       IN  /\ Apply(m, "WindConfig")
           /\ phase' = IF Ok(m) THEN "new" ELSE "rejected"
    /\ UNCHANGED config

\* __attrs_post_init__, lines 210-212
PostInitSetters ==
    /\ phase = "new"
    /\ LET m == ApplyRatingAndCount(Machine, config)
       IN  /\ Apply(m, "post_init_setters")
           /\ phase' = IF ~Ok(m) THEN "failed"
                       ELSE IF config.model_name = "pysam" THEN "sized" ELSE "ready"
    /\ UNCHANGED config

\* __attrs_post_init__, lines 214-215
PostInitPysam ==
    /\ phase = "sized"
    /\ LET m == InitializePysamWindTurbine(Machine, config)
       IN  /\ Apply(m, "initialize_pysam_wind_turbine")
           /\ phase' = IF Ok(m) THEN "ready" ELSE "failed"
    /\ UNCHANGED config

\* plant.turb_rating = rating_kw
TurbRatingStep(rating_kw) ==
    /\ phase = "ready"
    /\ Apply(TurbRatingSet(Machine, rating_kw), "turb_rating")
    /\ UNCHANGED <<config, phase>>

SetTurbRating == \E rating_kw \in Ratings : TurbRatingStep(rating_kw)

\* plant.modify_coordinates(xcoords, ycoords)
ModifyCoordinatesStep(xcoords, ycoords) ==
    /\ phase = "ready"
    /\ Apply(ModifyCoordinates(Machine, config.model_name, xcoords, ycoords),
             "modify_coordinates")
    /\ UNCHANGED <<config, phase>>

DoModifyCoordinates ==
    \E xcoords \in XCoords, ycoords \in YCoords : ModifyCoordinatesStep(xcoords, ycoords)

\* plant.wake_model = model_type
WakeModelStep(model_type, engine_ok) ==
    /\ phase = "ready"
    /\ Apply(WakeModelSet(Machine, model_type, engine_ok), "wake_model")
    /\ UNCHANGED <<config, phase>>

SetWakeModel ==
    \E model_type \in WakeModels, engine_ok \in BOOLEAN : WakeModelStep(model_type, engine_ok)

\* plant.num_turbines = n_turbines
NumTurbinesStep(n_turbines) ==
    /\ phase = "ready"
    /\ Apply(NumTurbinesSet(Machine, n_turbines), "num_turbines")
    /\ UNCHANGED <<config, phase>>

SetNumTurbines == \E n_turbines \in 1..MaxTurbines : NumTurbinesStep(n_turbines)

\* plant.modify_powercurve(rotor_diam, rating_kw)
ModifyPowercurveStep(rotor_diam, rating_kw, engine_ok) ==
    /\ phase = "ready"
    /\ Apply(ModifyPowercurve(Machine, rotor_diam, rating_kw, engine_ok),
             "modify_powercurve")
    /\ UNCHANGED <<config, phase>>

DoModifyPowercurve ==
    \E rotor_diam \in RotorDiameters, rating_kw \in Ratings, engine_ok \in BOOLEAN :
        ModifyPowercurveStep(rotor_diam, rating_kw, engine_ok)

\* plant.system_capacity_by_rating(wind_size_kw); line 146 made
\* self._rating_range_kw the config's rating_range_kw
SystemCapacityByRatingStep(wind_size_kw) ==
    /\ phase = "ready"
    /\ Apply(SystemCapacityByRating(Machine, config.rating_range_kw, wind_size_kw),
             "system_capacity_by_rating")
    /\ UNCHANGED <<config, phase>>

DoSystemCapacityByRating ==
    \E wind_size_kw \in WindSizes : SystemCapacityByRatingStep(wind_size_kw)

\* plant.modify_layout_params(wind_capacity_kW, layout_params, layout_mode)
ModifyLayoutParamsStep(wind_capacity_kW, layout_params, layout_mode, ctor_ok) ==
    /\ phase = "ready"
    /\ Apply(ModifyLayoutParams(Machine, wind_capacity_kW, layout_params, layout_mode,
                                ctor_ok),
             "modify_layout_params")
    /\ UNCHANGED <<config, phase>>

DoModifyLayoutParams ==
    \E wind_capacity_kW \in {RInt(MaxRatingKw)}, layout_params \in LayoutParams,
       layout_mode \in LayoutModes, ctor_ok \in BOOLEAN :
        ModifyLayoutParamsStep(wind_capacity_kW, layout_params, layout_mode, ctor_ok)

\* plant.system_capacity_kw = size_kw
SystemCapacityKwStep(size_kw) ==
    /\ phase = "ready"
    /\ Apply(SystemCapacityKwSet(Machine, size_kw), "system_capacity_kw")
    /\ UNCHANGED <<config, phase>>

SetSystemCapacityKw == \E size_kw \in CapacityTargets : SystemCapacityKwStep(size_kw)

Next ==
    \/ ConfigPostInit
    \/ PostInitSetters
    \/ PostInitPysam
    \/ SetTurbRating
    \/ DoModifyCoordinates
    \/ SetWakeModel
    \/ SetNumTurbines
    \/ DoModifyPowercurve

Spec == Init /\ [][Next]_vars

\* plants built from every combination of the fields that
\* WindConfig.__attrs_post_init__ reads
InitConfig == InitFor(ConstructionConfigs)

SpecConfig == InitConfig /\ [][Next]_vars

\* plants of either model and layout mode whose layout parameters are modified
InitLayout == InitFor(LayoutConfigs)

NextLayout ==
    \/ Next
    \/ DoModifyLayoutParams

SpecLayout == InitLayout /\ [][NextLayout]_vars

\* plants of either model, size and layout mode that are sized to a target capacity
InitCapacity == InitFor(SizingConfigs)

NextCapacity ==
    \/ Next
    \/ DoSystemCapacityByRating
    \/ SetSystemCapacityKw

SpecCapacity == InitCapacity /\ [][NextCapacity]_vars

-----------------------------------------------------------------------------
(* Properties *)

\* the names of the collaborator calls the last method made
CallNames(cs) == {cs[i][1] : i \in DOMAIN cs}

\* C1: for the PySAM model, when the turb_rating setter is called with
\* rating_kw while the current rating (the maximum of the power curve) is
\* non-zero, it returns with system_capacity = rating_kw * number of
\* x-coordinates.
C1_CapacityIsRatingTimesCount ==
    [][(phase = "ready" /\ last'.op = "turb_rating" /\ config.model_name = "pysam")
        => \A rating_kw \in Ratings :
              (TurbRating(Machine)[1] # 0 /\ TurbRatingStep(rating_kw))
              => /\ last'.exc = NoExc
                 /\ engine'.system_capacity =
                       RMul(rating_kw, RInt(Len(engine'.wind_farm_xCoordinates)))]_vars

\* a PySAM farm of two turbines re-rated from 3 kW to 2 kW: capacity 4 kW
C1_Witness ==
    /\ phase = "ready" /\ last.op = "turb_rating" /\ last.exc = NoExc
    /\ config.model_name = "pysam"
    /\ Len(engine.wind_farm_xCoordinates) = 2
    /\ TurbRating(Machine) = RInt(2)
    /\ engine.system_capacity = RInt(4)

\* C2: the turb_rating setter (the prior rating being non-zero, so that the
\* factor exists) replaces the power-curve output by an array of the same
\* length, each element the prior element times rating_kw / prior rating;
\* the wind speeds and the coordinates are not written.
C2_PowerCurveScaledUniformly ==
    [][(phase = "ready" /\ last'.op = "turb_rating")
        => \A rating_kw \in Ratings :
              (TurbRating(Machine)[1] # 0 /\ TurbRatingStep(rating_kw))
              => LET old == engine.wind_turbine_powercurve_powerout
                     new == engine'.wind_turbine_powercurve_powerout
                     factor == RDiv(rating_kw, RMax(old))
                 IN  /\ Len(new) = Len(old)
                     /\ \A i \in DOMAIN old : new[i] = RMul(old[i], factor)
                     /\ engine'.wind_turbine_powercurve_windspeeds =
                           engine.wind_turbine_powercurve_windspeeds
                     /\ engine'.wind_farm_xCoordinates = engine.wind_farm_xCoordinates
                     /\ engine'.wind_farm_yCoordinates = engine.wind_farm_yCoordinates]_vars

\* the default curve <<0, 1, 3>> re-rated to 2 kW: <<0, 2/3, 2>>
C2_Witness ==
    /\ phase = "ready" /\ last.op = "turb_rating" /\ last.exc = NoExc
    /\ engine.wind_turbine_powercurve_powerout = <<RInt(0), Rat(2, 3), RInt(2)>>

\* C3: modify_coordinates with arrays of different lengths raises ValueError
\* before any engine write (x- and y-coordinates and system_capacity are
\* unchanged, no engine call is made), for the pysam and the floris model.
C3_MismatchedCoordinatesRejected ==
    [][(phase = "ready" /\ last'.op = "modify_coordinates")
        => \A xcoords \in XCoords, ycoords \in YCoords :
              (Len(xcoords) # Len(ycoords) /\ ModifyCoordinatesStep(xcoords, ycoords))
              => /\ last'.exc.type = "ValueError"
                 /\ engine' = engine
                 /\ calls' = <<>>]_vars

\* a floris plant after a rejected modify_coordinates
C3_Witness ==
    /\ phase = "ready" /\ last.op = "modify_coordinates"
    /\ last.exc.type = "ValueError"
    /\ config.model_name = "floris"

\* C4: when initialize_pysam_wind_turbine completes and the engine's hub
\* height differed from the resource's and lay outside [min(heights),
\* max(heights)], the resource was re-initialized for the same latitude,
\* longitude and year, the new resource replaced site.wind_resource and the
\* engine's wind_resource_data is the new resource's data, not the old one.
C4_ResourceRefetchedOutsideHeights ==
    [][(phase = "sized" /\ phase' = "ready")
        => LET hub_height == engine'.wind_turbine_hub_ht
               old == site.wind_resource
           IN  (/\ hub_height # old.hub_height_meters
                /\ (hub_height < Min(old.data.heights) \/ hub_height > Max(old.data.heights)))
               => /\ \E i \in DOMAIN calls' :
                        calls'[i] = <<"initialize_wind_resource",
                                      [lat |-> old.latitude, lon |-> old.longitude,
                                       year |-> old.year]>>
                  /\ site'.wind_resource # old
                  /\ site'.wind_resource.latitude = old.latitude
                  /\ site'.wind_resource.longitude = old.longitude
                  /\ site'.wind_resource.year = old.year
                  /\ engine'.wind_resource_data = site'.wind_resource.data
                  /\ engine'.wind_resource_data # engine.wind_resource_data]_vars

\* a plant initialized with a 120 m hub over data measured at 80 m only
C4_Witness ==
    /\ phase = "ready" /\ last.op = "initialize_pysam_wind_turbine"
    /\ engine.wind_turbine_hub_ht = 120
    /\ site.wind_resource.id = 1
    /\ engine.wind_resource_data = [fetch |-> 1, heights |-> {120}]

\* C5: setting wake_model to an index outside 0..3 raises an error (the
\* setter does not return normally) and leaves wind_farm_wake_model as it was.
C5_InvalidWakeModelFails ==
    [][(phase = "ready" /\ last'.op = "wake_model")
        => \A model_type \in WakeModels, engine_ok \in BOOLEAN :
              (model_type \notin 0..3 /\ WakeModelStep(model_type, engine_ok))
              => /\ last'.exc.type # "none"
                 /\ engine'.wind_farm_wake_model = engine.wind_farm_wake_model]_vars

\* C6: when config.turbine_name is given and the turbine library does not
\* hold it, initialize_pysam_wind_turbine ends with the ValueError "Turbine
\* name ... was not found", before any turbine-spec lookup and before any
\* assignment to the engine's Turbine group.
C6_UnknownTurbineNameRaisesValueError ==
    (/\ last.op = "initialize_pysam_wind_turbine"
     /\ config.turbine_name # None
     /\ ~check_turbine_library_for_turbine(Val(config.turbine_name)))
    => /\ last.exc = Exc("ValueError", <<"Turbine name was not found">>)
       /\ "get_pysam_turbine_specs" \notin CallNames(calls)
       /\ "Turbine.assign" \notin CallNames(calls)

\* C7 as claimed: in custom layout mode, num_turbines = n with n different
\* from len(layout_x) raises ValueError and set_num_turbines is not called.
C7_CountMustMatchCustomLayout ==
    [][(phase = "ready" /\ last'.op = "num_turbines" /\ layout.layout_mode = "custom")
        => \A n \in 1..MaxTurbines :
              (n # Len(layout.layout_x) /\ NumTurbinesStep(n))
              => /\ last'.exc.type = "ValueError"
                 /\ "set_num_turbines" \notin CallNames(calls')]_vars

\* C7 as amended: in custom layout mode, num_turbines = n raises ValueError,
\* without calling set_num_turbines, exactly when n differs both from
\* len(layout_x) and from the engine's current number of x-coordinates;
\* otherwise set_num_turbines(n) is called and the setter returns.
C7_CountMustMatchLayoutOrEngine ==
    [][(phase = "ready" /\ last'.op = "num_turbines" /\ layout.layout_mode = "custom")
        => \A n \in 1..MaxTurbines :
              NumTurbinesStep(n)
              => IF n # Len(layout.layout_x) /\ n # Len(engine.wind_farm_xCoordinates)
                 THEN /\ last'.exc.type = "ValueError"
                      /\ calls' = <<>>
                      /\ engine' = engine
                 ELSE /\ last'.exc = NoExc
                      /\ \E i \in DOMAIN calls' : calls'[i] = <<"set_num_turbines", n>>]_vars

\* a custom layout of one position, the engine moved to two coordinates by
\* modify_coordinates, then num_turbines = 2 accepted
C7_Witness ==
    /\ phase = "ready" /\ last.op = "num_turbines" /\ last.exc = NoExc
    /\ layout.layout_mode = "custom"
    /\ Len(layout.layout_x) = 1
    /\ calls = <<<<"set_num_turbines", 2>>>>

\* C8: if config.hub_height is given and differs from the engine's
\* wind_turbine_hub_ht, initialize_pysam_wind_turbine raises ValueError
\* before any modification of the site (site unchanged, no resource
\* re-initialization), whether or not a turbine_name is configured.
C8_HubHeightMismatchRaisesValueError ==
    [][(phase = "sized" /\ last'.op = "initialize_pysam_wind_turbine")
        => ((/\ config.hub_height # None
             /\ Val(config.hub_height) # engine'.wind_turbine_hub_ht)
            => (/\ last'.exc.type = "ValueError"
                /\ site' = site
                /\ "initialize_wind_resource" \notin CallNames(calls')))]_vars

\* C9: if config.rotor_diameter is given and differs from the rotor diameter
\* of the turbine selected from the library, initialize_pysam_wind_turbine
\* raises ValueError and the plant never becomes ready.
C9_RotorDiameterMismatchRaisesValueError ==
    (/\ config.rotor_diameter # None
     /\ config.turbine_name # None
     /\ check_turbine_library_for_turbine(Val(config.turbine_name))
     /\ Val(config.rotor_diameter) #
           TurbineLibrary[Val(config.turbine_name)].wind_turbine_rotor_diameter)
    => /\ phase # "ready"
       /\ (last.op = "initialize_pysam_wind_turbine"
           => (phase = "failed" /\ last.exc.type = "ValueError"))

\* TurbA (120 m rotor) configured with a 100 m rotor: initialization failed
C9_Witness ==
    /\ phase = "failed" /\ last.op = "initialize_pysam_wind_turbine"
    /\ config.turbine_name = Some("TurbA")
    /\ config.rotor_diameter = Some(100)
    /\ last.exc = Exc("ValueError", <<"Input rotor diameter does not match">>)
    /\ engine.wind_turbine_rotor_diameter = 120

\* C10: when calculate_powercurve fails inside modify_powercurve(rotor_diam,
\* rating_kw), a RuntimeError naming rotor_diam and rating_kw is raised and
\* the engine's rotor diameter and system_capacity are unchanged.
C10_PowercurveFailureBecomesRuntimeError ==
    [][(phase = "ready" /\ last'.op = "modify_powercurve")
        => \A rotor_diam \in RotorDiameters, rating_kw \in Ratings :
              ModifyPowercurveStep(rotor_diam, rating_kw, FALSE)
              => /\ last'.exc.type = "RuntimeError"
                 /\ last'.exc.msg[2] = rotor_diam
                 /\ last'.exc.msg[3] = rating_kw
                 /\ engine'.wind_turbine_rotor_diameter = engine.wind_turbine_rotor_diameter
                 /\ engine'.system_capacity = engine.system_capacity]_vars

\* a failed modify_powercurve(120, 2) on an engine that keeps its 100 m rotor
C10_Witness ==
    /\ phase = "ready" /\ last.op = "modify_powercurve"
    /\ last.exc = Exc("RuntimeError",
                      <<"could not calculate turbine powercurve", 120, RInt(2)>>)
    /\ engine.wind_turbine_rotor_diameter = 100

\* wind_size_kw / num_turbines lies within [rating_range_kw[0], rating_range_kw[1]]
\* (with no turbine there is no quotient)
QuotientInRange(wind_size_kw) ==
    /\ NumTurbines(Machine) > 0
    /\ RLe(RInt(config.rating_range_kw[1]),
           RDiv(wind_size_kw, RInt(NumTurbines(Machine))))
    /\ RLe(RDiv(wind_size_kw, RInt(NumTurbines(Machine))),
           RInt(config.rating_range_kw[2]))

\* C11 as claimed: system_capacity_by_rating(wind_size_kw) sets the turbine
\* rating to wind_size_kw / num_turbines exactly when the quotient lies in
\* the inclusive rating range; otherwise it raises RuntimeError and leaves
\* the power curve, the system capacity and the turbines unchanged.
C11_RatingSetExactlyWhenInRange ==
    [][(phase = "ready" /\ last'.op = "system_capacity_by_rating")
        => \A wind_size_kw \in WindSizes :
              SystemCapacityByRatingStep(wind_size_kw)
              => IF QuotientInRange(wind_size_kw)
                 THEN /\ last'.exc = NoExc
                      /\ RMax(engine'.wind_turbine_powercurve_powerout) =
                            RDiv(wind_size_kw, RInt(NumTurbines(Machine)))
                 ELSE /\ last'.exc.type = "RuntimeError"
                      /\ engine' = engine]_vars

\* C11 as amended: on a plant with at least one turbine and a non-zero
\* current rating, system_capacity_by_rating(wind_size_kw) sets the rating to
\* wind_size_kw / num_turbines exactly when the quotient lies in the
\* inclusive rating range and otherwise raises RuntimeError with the engine
\* unchanged; with no turbine, or with a quotient in range and a current
\* rating of zero, it ends with ZeroDivisionError and the engine unchanged.
C11_RatingSetWhenInRangeAndDivisible ==
    [][(phase = "ready" /\ last'.op = "system_capacity_by_rating")
        => \A wind_size_kw \in WindSizes :
              SystemCapacityByRatingStep(wind_size_kw)
              => IF \/ NumTurbines(Machine) = 0
                    \/ (QuotientInRange(wind_size_kw) /\ TurbRating(Machine)[1] = 0)
                 THEN /\ last'.exc.type = "ZeroDivisionError"
                      /\ engine' = engine
                 ELSE IF QuotientInRange(wind_size_kw)
                 THEN /\ last'.exc = NoExc
                      /\ RMax(engine'.wind_turbine_powercurve_powerout) =
                            RDiv(wind_size_kw, RInt(NumTurbines(Machine)))
                      /\ engine'.system_capacity = wind_size_kw
                      /\ engine'.wind_farm_xCoordinates = engine.wind_farm_xCoordinates
                 ELSE /\ last'.exc.type = "RuntimeError"
                      /\ engine' = engine]_vars

\* two turbines sized to 2 kW in all: each rated 1 kW, the lower end of the range
C11_Witness ==
    /\ phase = "ready" /\ last.op = "system_capacity_by_rating" /\ last.exc = NoExc
    /\ Len(engine.wind_farm_xCoordinates) = 2
    /\ TurbRating(Machine) = RInt(1)
    /\ engine.system_capacity = RInt(2)

\* C12: constructing a WindConfig fails, with ValueError, in exactly two
\* situations: (1) model_name is 'floris' and timestep is None; (2)
\* turbine_rating_kw and turbine_name are both None while model_name is
\* 'pysam' and model_input_file is None.  In particular both being None is
\* accepted with a model_input_file or with the floris model.
C12_ConfigRejectedInExactlyTwoCases ==
    phase # "config"
    => IF \/ (config.model_name = "floris" /\ config.timestep = None)
          \/ (/\ config.turbine_rating_kw = None /\ config.turbine_name = None
              /\ config.model_name = "pysam" /\ config.model_input_file = None)
       THEN phase = "rejected" /\ last.op = "WindConfig" /\ last.exc.type = "ValueError"
       ELSE phase # "rejected" /\ (last.op = "WindConfig" => last.exc = NoExc)

\* a floris plant built from a config without rating, turbine name or input file
C12_Witness ==
    /\ phase = "ready"
    /\ config.model_name = "floris"
    /\ config.turbine_rating_kw = None /\ config.turbine_name = None
    /\ config.model_input_file = None

\* C13: modify_layout_params with a dictionary and no layout_mode raises
\* ValueError without calling set_layout_params; with a dictionary and a
\* layout_mode of 'custom', 'grid', 'basicgrid' or 'boundarygrid' the
\* dictionary is made into the matching parameter object first, and
\* set_layout_params is called with that object.
C13_DictionaryNeedsLayoutMode ==
    [][(phase = "ready" /\ last'.op = "modify_layout_params")
        => \A layout_params \in LayoutParams, layout_mode \in LayoutModes :
              (/\ layout_params.type = "dict"
               /\ ModifyLayoutParamsStep(RInt(MaxRatingKw), layout_params, layout_mode, TRUE))
              => IF layout_mode = None
                 THEN /\ last'.exc.type = "ValueError"
                      /\ calls' = <<>>
                      /\ engine' = engine /\ layout' = layout
                 ELSE Val(layout_mode) \in {"custom", "grid", "basicgrid", "boundarygrid"}
                      => /\ last'.exc = NoExc
                         /\ calls' =
                              << <<ParametersClass(Val(layout_mode)), layout_params.items>>,
                                 <<"set_layout_params",
                                   <<RInt(MaxRatingKw),
                                     [type |-> ParametersClass(Val(layout_mode)),
                                      items |-> layout_params.items]>> >> >>]_vars

\* a dictionary given with layout_mode 'basicgrid' reached the layout as a
\* WindBasicGridParameters object
C13_Witness ==
    /\ phase = "ready" /\ last.op = "modify_layout_params" /\ last.exc = NoExc
    /\ Len(calls) = 2
    /\ calls[1][1] = "WindBasicGridParameters"
    /\ calls[2][1] = "set_layout_params"
    /\ calls[2][2][2].type = "WindBasicGridParameters"

\* the engine's capacity is the current rating times the current turbine count
CapacityConsistent(e) ==
    e.system_capacity =
        RMul(RMax(e.wind_turbine_powercurve_powerout), RInt(Len(e.wind_farm_xCoordinates)))

\* C14: for the PySAM model, a successful turb_rating assignment or
\* modify_coordinates call made in a state where system_capacity = current
\* rating (maximum of the power curve) * number of x-coordinates leads to a
\* state where that holds again; so it holds after any sequence of them.
C14_CapacityConsistencyPreserved ==
    [][(/\ phase = "ready" /\ config.model_name = "pysam"
        /\ last'.op \in {"turb_rating", "modify_coordinates"}
        /\ last'.exc = NoExc
        /\ CapacityConsistent(engine))
        => CapacityConsistent(engine')]_vars

\* a PySAM farm re-rated to 2 kW and then moved to two positions: 4 kW
C14_Witness ==
    /\ phase = "ready" /\ config.model_name = "pysam"
    /\ last.op = "modify_coordinates" /\ last.exc = NoExc
    /\ Len(engine.wind_farm_xCoordinates) = 2
    /\ TurbRating(Machine) = RInt(2)
    /\ engine.system_capacity = RInt(4)

\* C15: when initialize_pysam_wind_turbine completes and the engine's hub
\* height differed from the resource's but lay within [min(heights),
\* max(heights)], ends included, site.hub_height and the resource's
\* hub_height_meters are the turbine's hub height and the resource was not
\* re-initialized (same resource, same data, no fetch, the engine's
\* wind_resource_data untouched); when the two heights were equal the site
\* is unchanged.
C15_ResourceKeptWithinHeights ==
    [][(phase = "sized" /\ phase' = "ready")
        => LET hub_height == engine'.wind_turbine_hub_ht
               old == site.wind_resource
           IN  /\ (/\ hub_height # old.hub_height_meters
                   /\ hub_height >= Min(old.data.heights)
                   /\ hub_height <= Max(old.data.heights))
                  => /\ site'.hub_height = hub_height
                     /\ site'.wind_resource = [old EXCEPT !.hub_height_meters = hub_height]
                     /\ site'.elev = site.elev
                     /\ "initialize_wind_resource" \notin CallNames(calls')
                     /\ engine'.wind_resource_data = engine.wind_resource_data
               /\ (hub_height = old.hub_height_meters => site' = site)]_vars

\* a plant initialized with a 120 m hub over data measured at 80 m and 120 m:
\* the resource fetched first, now read at 120 m
C15_Witness ==
    /\ phase = "ready" /\ last.op = "initialize_pysam_wind_turbine"
    /\ engine.wind_turbine_hub_ht = 120
    /\ site.hub_height = 120
    /\ site.wind_resource.id = 0
    /\ site.wind_resource.hub_height_meters = 120
    /\ site.wind_resource.data = [fetch |-> 0, heights |-> {80, 120}]

\* Python's round(size_kw / current rating), the rating being non-zero
NewNumTurbines(size_kw) ==
    RoundHalfEven(RDiv(size_kw, TurbRating(Machine))[1],
                  RDiv(size_kw, TurbRating(Machine))[2])

\* C16: assigning system_capacity_kw = size_kw leaves the power curve (and
\* so the rating) as it was; the new count is round(size_kw / rating), and
\* the num_turbines setter runs, with that count, only when it differs from
\* the current number of turbines: otherwise nothing is written or called.
\* With a rating of zero there is no quotient and the assignment fails with
\* nothing written.
C16_CountFromCapacityOnlyWhenDifferent ==
    [][(phase = "ready" /\ last'.op = "system_capacity_kw")
        => \A size_kw \in CapacityTargets :
              SystemCapacityKwStep(size_kw)
              => /\ engine'.wind_turbine_powercurve_powerout =
                       engine.wind_turbine_powercurve_powerout
                 /\ IF TurbRating(Machine)[1] = 0
                    THEN last'.exc.type = "ZeroDivisionError"
                         /\ engine' = engine /\ calls' = <<>>
                    ELSE IF NewNumTurbines(size_kw) = NumTurbines(Machine)
                    THEN last'.exc = NoExc /\ engine' = engine /\ calls' = <<>>
                    ELSE LET m == NumTurbinesSet(Machine, NewNumTurbines(size_kw))
                         IN  /\ engine' = m.engine /\ calls' = m.calls
                             /\ last'.exc = m.exc
                             /\ (Ok(m) => \E i \in DOMAIN calls' :
                                    calls'[i] = <<"set_num_turbines",
                                                  NewNumTurbines(size_kw)>>)]_vars

\* one 1 kW turbine on a grid sized to 2 kW: the layout is asked for two turbines
C16_Witness ==
    /\ phase = "ready" /\ last.op = "system_capacity_kw" /\ last.exc = NoExc
    /\ layout.layout_mode = "grid"
    /\ TurbRating(Machine) = RInt(1)
    /\ calls = <<<<"set_num_turbines", 2>>>>
    /\ Len(engine.wind_farm_xCoordinates) = 2

=============================================================================
